---- MODULE Spec2Model ----
(***************************************************************************)
(* A model of src/main.py: the paginated subject crawl                     *)
(* (crawl_openlibrary_books_by_subject), the detail-page extractor         *)
(* (crawl_book_details_from_url) and the batch detail crawl                *)
(* (crawl_book_details_from_csv).                                          *)
(*                                                                         *)
(* Python strings are sequences of one-character strings, so that strip,   *)
(* split and the regular expressions are computed as Python computes them. *)
(* An optional value (None or a value) is a sequence of length 0 or 1.     *)
(***************************************************************************)
EXTENDS Integers, Sequences, FiniteSets

\* ------------------------------------------------------------------------
\* Bounds
\* ------------------------------------------------------------------------
MaxPages == 3

MaxRows == 3

\* ------------------------------------------------------------------------
\* Python values
\* ------------------------------------------------------------------------
None == <<>>

Some(x) == <<x>>

IsNone(o) == Len(o) = 0

Val(o) == o[1]

EmptyStr == <<>>

\* U+00B2 SUPERSCRIPT TWO, one character: str.isdigit() accepts it, int()
\* and the pattern \d do not.
Sup2 == "sup2"

Digits == {"0", "1", "2", "3", "4", "5", "6", "7", "8", "9"}

UpperCase == <<"A", "B", "C", "D", "E", "F", "G", "H", "I", "J", "K", "L", "M",
               "N", "O", "P", "Q", "R", "S", "T", "U", "V", "W", "X", "Y", "Z">>

LowerCase == <<"a", "b", "c", "d", "e", "f", "g", "h", "i", "j", "k", "l", "m",
               "n", "o", "p", "q", "r", "s", "t", "u", "v", "w", "x", "y", "z">>

Whitespace == {" ", "\t", "\n"}

\* The characters the pattern \w matches (so \b is a boundary against them).
WordChars ==
    Digits \cup {"_", Sup2} \cup {UpperCase[i] : i \in 1..26} \cup {LowerCase[i] : i \in 1..26}

Lower(c) ==
    IF \E i \in 1..26 : UpperCase[i] = c
    THEN LowerCase[CHOOSE i \in 1..26 : UpperCase[i] = c]
    ELSE c

MinOf(S) == CHOOSE x \in S : \A y \in S : x <= y

MaxOf(S) == CHOOSE x \in S : \A y \in S : y <= x

\* s[k], or the empty string past either end of s.
At(s, k) == IF k \in 1..Len(s) THEN s[k] ELSE ""

\* The last index of the longest run of characters of S that starts at i
\* (i - 1 when s[i] is not in S): a greedy \d+ or \s*.
RunEnd(s, i, S) ==
    CHOOSE j \in (i - 1)..Len(s) :
        /\ \A k \in i..j : s[k] \in S
        /\ At(s, j + 1) \notin S

LitAt(s, i, lit) == \A k \in 1..Len(lit) : At(s, i + k - 1) = lit[k]

LitAtCI(s, i, lit) == \A k \in 1..Len(lit) : Lower(At(s, i + k - 1)) = Lower(lit[k])

\* str.strip()
strip(s) ==
    LET keep == {i \in 1..Len(s) : s[i] \notin Whitespace}
    IN  IF keep = {} THEN EmptyStr ELSE SubSeq(s, MinOf(keep), MaxOf(keep))

DigitVal(c) ==
    CASE c = "0" -> 0 [] c = "1" -> 1 [] c = "2" -> 2 [] c = "3" -> 3 [] c = "4" -> 4
      [] c = "5" -> 5 [] c = "6" -> 6 [] c = "7" -> 7 [] c = "8" -> 8 [] c = "9" -> 9

\* str.isdigit(): non-empty and every character a digit character.
isdigit(s) == Len(s) > 0 /\ \A i \in 1..Len(s) : s[i] \in Digits \cup {Sup2}

\* int(s) raises ValueError unless s is a non-empty decimal literal.
IntRaises(s) == ~(Len(s) > 0 /\ \A i \in 1..Len(s) : s[i] \in Digits)

RECURSIVE PyInt(_)
PyInt(s) ==
    IF Len(s) = 0 THEN 0
    ELSE PyInt(SubSeq(s, 1, Len(s) - 1)) * 10 + DigitVal(s[Len(s)])

\* float("d.ffff"): the decimal value num / 10^exp, trailing zeros dropped.
PyFloat(whole, frac) ==
    LET nz   == {i \in 1..Len(frac) : frac[i] # "0"}
        keep == IF nz = {} THEN 0 ELSE MaxOf(nz)
    IN  [num |-> PyInt(whole \o SubSeq(frac, 1, keep)), exp |-> keep]

Float0 == [num |-> 0, exp |-> 0]

\* ------------------------------------------------------------------------
\* The search-result pages
\* ------------------------------------------------------------------------
Origin ==
    <<"h", "t", "t", "p", "s", ":", "/", "/", "o", "p", "e", "n", "l", "i", "b",
      "r", "a", "r", "y", ".", "o", "r", "g">>

WorksSep == <<"/", "w", "o", "r", "k", "s", "/">>

\* /works/OL1W/T
HrefPath == WorksSep \o <<"O", "L", "1", "W", "/", "T">>

\* /works/OL2W?e=k/b
HrefQuery == WorksSep \o <<"O", "L", "2", "W", "?", "e", "=", "k", "/", "b">>

\* /books/OL3M
HrefBook == <<"/", "b", "o", "o", "k", "s", "/", "O", "L", "3", "M">>

\* /works/OL4W?r=/works/OL5W
HrefTwice == WorksSep \o <<"O", "L", "4", "W", "?", "r", "=">> \o WorksSep \o <<"O", "L", "5", "W">>

\* /works/OL6W
HrefBare == WorksSep \o <<"O", "L", "6", "W">>

\* /works/
HrefNoKey == WorksSep

Anchor(text, href) == [text |-> text, href |-> href]

\* An item container: the first <a> under its first <h3> (if any), and its
\* first <a class="results"> (if any).
Item(h3, h3a, res) == [h3 |-> h3, h3a |-> h3a, results |-> res]

ItemH3 == Item(TRUE, Some(Anchor(<<" ", "D", "u", "n", "e", "\n">>, Some(HrefPath))), None)

ItemResults == Item(FALSE, None, Some(Anchor(<<"E", "m", "m", "a">>, Some(HrefQuery))))

ItemH3NoAnchor == Item(TRUE, None, Some(Anchor(<<"U", "b", "i", "k">>, Some(HrefBook))))

ItemNoLink == Item(TRUE, None, None)

ItemNoH3NoLink == Item(FALSE, None, None)

ItemNoHref == Item(TRUE, Some(Anchor(<<"I", "t">>, None)), None)

ItemTwice == Item(TRUE, Some(Anchor(<<"V", "a", "l", "i", "s">>, Some(HrefTwice))), None)

ItemBare == Item(FALSE, None, Some(Anchor(<<"W", "e">>, Some(HrefBare))))

ItemNoKey == Item(TRUE, Some(Anchor(<<>>, Some(HrefNoKey))), Some(Anchor(<<"X">>, Some(HrefBare))))

\* A parsed search page: what each of the three selectors finds on it.
SearchPage(divs, bookItems, lis) ==
    [divSearchResultItem |-> divs, divBookItem |-> bookItems, liSearchResultItem |-> lis]

PageEmpty == SearchPage(<<>>, <<>>, <<>>)

PageDivs == SearchPage(<<ItemH3, ItemNoLink, ItemResults>>, <<>>, <<>>)

PageBookItems == SearchPage(<<>>, <<ItemH3NoAnchor, ItemNoKey>>, <<>>)

PageLis == SearchPage(<<>>, <<>>, <<ItemTwice, ItemH3>>)

PageAllSkipped == SearchPage(<<ItemNoLink, ItemNoH3NoLink>>, <<>>, <<>>)

PageNoHref == SearchPage(<<ItemH3, ItemNoHref, ItemResults>>, <<>>, <<>>)

PageMixed == SearchPage(<<ItemBare>>, <<ItemH3>>, <<ItemResults>>)

SearchPages ==
    {PageEmpty, PageDivs, PageBookItems, PageLis, PageAllSkipped, PageNoHref, PageMixed}

Subjects == {"science_fiction", "fantasy"}


VARIABLES
    subject,        \* crawl_openlibrary_books_by_subject: the subject argument
    max_pages,      \* ... the max_pages argument
    page,           \* the loop variable of "for page in range(1, max_pages + 1)"
    pc,             \* where the call is: "loop", "items", "done" or "raised"
    books,          \* the accumulated result list
    page_books,     \* the records of the page being processed
    book_items,     \* the item containers of the page being processed
    item_idx,       \* the position of "for item in book_items"
    fetchLog,       \* history: every get_page call of the crawl, in order
    events,         \* history: fetches, processed items and sleeps, in order
    result,         \* the returned list (None until the call returns)
    fieldnames,     \* crawl_book_details_from_csv: the header of the CSV file
    rows,           \* ... list(reader)
    row_idx,        \* ... the position of "for idx, row in enumerate(rows)"
    book_details,   \* ... the list being collected
    bpc,            \* ... "idle", "open", "rows", "done"
    bresult,        \* ... the returned list (None until the call returns)
    detailLog,      \* history: the get_page outcome of every processed row
    durl,           \* crawl_book_details_from_url: the book_url argument
    dsoup,          \* ... what get_page returned (None on failure)
    dpc,            \* ... "idle", "call", "returned", "raised"
    details         \* ... the returned dictionary

discoverVars ==
    <<subject, max_pages, page, pc, books, page_books, book_items, item_idx,
      fetchLog, events, result>>

batchVars == <<fieldnames, rows, row_idx, book_details, bpc, bresult, detailLog>>

detailVars == <<durl, dsoup, dpc, details>>

vars == <<discoverVars, batchVars, detailVars>>

\* ------------------------------------------------------------------------
\* crawl_openlibrary_books_by_subject
\* ------------------------------------------------------------------------
\* The search URL: the fixed query with the subject and the page number.
SearchUrl(subj, p) == [subject |-> subj, page |-> p]

Event(kind, p) == [kind |-> kind, page |-> p]

\* book_items after the selector fallbacks.
SelectBookItems(soup) ==
    IF soup.divSearchResultItem # <<>> THEN soup.divSearchResultItem
    ELSE IF soup.divBookItem # <<>> THEN soup.divBookItem
    ELSE soup.liSearchResultItem

\* title_link: the anchor under <h3>, else the anchor of class "results".
TitleLink(it) ==
    LET primary == IF it.h3 THEN it.h3a ELSE None
    IN  IF IsNone(primary) THEN it.results ELSE primary

Contains(s, sep) == \E i \in 1..Len(s) : LitAt(s, i, sep)

\* s.split(sep)[-1]: what follows the last of the occurrences of sep that a
\* left-to-right scan finds.
RECURSIVE SplitLast(_, _)
SplitLast(s, sep) ==
    LET occ == {i \in 1..Len(s) : LitAt(s, i, sep)}
    IN  IF occ = {} THEN s
        ELSE CHOOSE last \in {SplitLast(rest, sep) :
                                 rest \in {SubSeq(s, MinOf(occ) + Len(sep), Len(s))}} : TRUE

\* s.split(c)[0]
SplitFirst(s, c) ==
    LET occ == {i \in 1..Len(s) : s[i] = c}
    IN  IF occ = {} THEN s ELSE SubSeq(s, 1, MinOf(occ) - 1)

\* work_part = href.split('/works/')[-1]
\* work_key = work_part.split('/')[0].split('?')[0]
WorkKey(href) ==
    IF Contains(href, WorksSep)
    THEN CHOOSE work_key \in
            {SplitFirst(head, "?") :
                head \in {SplitFirst(work_part, "/") :
                             work_part \in {SplitLast(href, WorksSep)}}} : TRUE
    ELSE EmptyStr

BookUrl(href) == Origin \o href

SummaryRecord(link) ==
    [title |-> strip(link.text),
     work_key |-> WorkKey(Val(link.href)),
     book_url |-> BookUrl(Val(link.href))]

InitDiscover ==
    /\ subject \in Subjects
    /\ max_pages \in -1..MaxPages
    /\ page = 1
    /\ pc = "loop"
    /\ books = <<>>
    /\ page_books = <<>>
    /\ book_items = <<>>
    /\ item_idx = 1
    /\ fetchLog = <<>>
    /\ events = <<>>
    /\ result = None

IdleDiscover ==
    /\ subject = "science_fiction"
    /\ max_pages = 0
    /\ page = 1
    /\ pc = "idle"
    /\ books = <<>>
    /\ page_books = <<>>
    /\ book_items = <<>>
    /\ item_idx = 1
    /\ fetchLog = <<>>
    /\ events = <<>>
    /\ result = None

\* FetchFailed with "break" in place of "continue".
FetchFailedBreaks ==
    /\ pc = "loop"
    /\ page <= max_pages
    /\ fetchLog' = Append(fetchLog, [url |-> SearchUrl(subject, page), soup |-> None])
    /\ events' = Append(events, Event("fetch", page))
    /\ pc' = "done"
    /\ result' = Some(books)
    /\ UNCHANGED <<subject, max_pages, page, books, page_books, book_items, item_idx>>
    /\ UNCHANGED <<batchVars, detailVars>>

\* get_page returns None: "continue".
FetchFailed ==
    /\ pc = "loop"
    /\ page <= max_pages
    /\ fetchLog' = Append(fetchLog, [url |-> SearchUrl(subject, page), soup |-> None])
    /\ events' = Append(events, Event("fetch", page))
    /\ page' = page + 1
    /\ UNCHANGED <<subject, max_pages, pc, books, page_books, book_items, item_idx, result>>
    /\ UNCHANGED <<batchVars, detailVars>>

\* NoBooksFound with "continue" in place of "break".
NoBooksFoundContinues ==
    /\ pc = "loop"
    /\ page <= max_pages
    /\ \E soup \in SearchPages :
        /\ SelectBookItems(soup) = <<>>
        /\ fetchLog' = Append(fetchLog, [url |-> SearchUrl(subject, page), soup |-> Some(soup)])
        /\ book_items' = SelectBookItems(soup)
    /\ events' = Append(events, Event("fetch", page))
    /\ page_books' = <<>>
    /\ page' = page + 1
    /\ UNCHANGED <<subject, max_pages, pc, books, item_idx, result>>
    /\ UNCHANGED <<batchVars, detailVars>>

\* The page is fetched and no selector finds an item: "break", then return.
NoBooksFound ==
    /\ pc = "loop"
    /\ page <= max_pages
    /\ \E soup \in SearchPages :
        /\ SelectBookItems(soup) = <<>>
        /\ fetchLog' = Append(fetchLog, [url |-> SearchUrl(subject, page), soup |-> Some(soup)])
        /\ book_items' = SelectBookItems(soup)
    /\ events' = Append(events, Event("fetch", page))
    /\ page_books' = <<>>
    /\ pc' = "done"
    /\ result' = Some(books)
    /\ UNCHANGED <<subject, max_pages, page, books, item_idx>>
    /\ UNCHANGED <<batchVars, detailVars>>

\* The page is fetched and has items: enter "for item in book_items".
BooksFound ==
    /\ pc = "loop"
    /\ page <= max_pages
    /\ \E soup \in SearchPages :
        /\ SelectBookItems(soup) # <<>>
        /\ fetchLog' = Append(fetchLog, [url |-> SearchUrl(subject, page), soup |-> Some(soup)])
        /\ book_items' = SelectBookItems(soup)
    /\ events' = Append(events, Event("fetch", page))
    /\ page_books' = <<>>
    /\ item_idx' = 1
    /\ pc' = "items"
    /\ UNCHANGED <<subject, max_pages, page, books, result>>
    /\ UNCHANGED <<batchVars, detailVars>>

\* An item without a title link: "continue".
SkipItem ==
    /\ pc = "items"
    /\ item_idx <= Len(book_items)
    /\ IsNone(TitleLink(book_items[item_idx]))
    /\ events' = Append(events, Event("item", page))
    /\ item_idx' = item_idx + 1
    /\ UNCHANGED <<subject, max_pages, page, pc, books, page_books, book_items, fetchLog, result>>
    /\ UNCHANGED <<batchVars, detailVars>>

\* title_link['href'] on an anchor without href: KeyError leaves the call.
ItemKeyError ==
    /\ pc = "items"
    /\ item_idx <= Len(book_items)
    /\ ~IsNone(TitleLink(book_items[item_idx]))
    /\ IsNone(Val(TitleLink(book_items[item_idx])).href)
    /\ events' = Append(events, Event("item", page))
    /\ pc' = "raised"
    /\ UNCHANGED <<subject, max_pages, page, books, page_books, book_items, item_idx,
                   fetchLog, result>>
    /\ UNCHANGED <<batchVars, detailVars>>

AppendItem ==
    /\ pc = "items"
    /\ item_idx <= Len(book_items)
    /\ ~IsNone(TitleLink(book_items[item_idx]))
    /\ ~IsNone(Val(TitleLink(book_items[item_idx])).href)
    /\ \E record \in {SummaryRecord(Val(TitleLink(book_items[item_idx])))} :
         page_books' = Append(page_books, record)
    /\ events' = Append(events, Event("item", page))
    /\ item_idx' = item_idx + 1
    /\ UNCHANGED <<subject, max_pages, page, pc, books, book_items, fetchLog, result>>
    /\ UNCHANGED <<batchVars, detailVars>>

\* EndOfPage that fetches the same page again.
EndOfPageRepeats ==
    /\ pc = "items"
    /\ item_idx > Len(book_items)
    /\ Len(fetchLog) <= MaxPages + 1
    /\ books' = books \o page_books
    /\ events' = Append(events, Event("sleep", page))
    /\ pc' = "loop"
    /\ UNCHANGED <<subject, max_pages, page, page_books, book_items, item_idx, fetchLog, result>>
    /\ UNCHANGED <<batchVars, detailVars>>

\* After the last item: books.extend(page_books), time.sleep(0.5), next page.
EndOfPage ==
    /\ pc = "items"
    /\ item_idx > Len(book_items)
    /\ books' = books \o page_books
    /\ events' = Append(events, Event("sleep", page))
    /\ page' = page + 1
    /\ pc' = "loop"
    /\ UNCHANGED <<subject, max_pages, page_books, book_items, item_idx, fetchLog, result>>
    /\ UNCHANGED <<batchVars, detailVars>>

\* range(1, max_pages + 1) is exhausted: return books.
LoopExhausted ==
    /\ pc = "loop"
    /\ page > max_pages
    /\ pc' = "done"
    /\ result' = Some(books)
    /\ UNCHANGED <<subject, max_pages, page, books, page_books, book_items, item_idx,
                   fetchLog, events>>
    /\ UNCHANGED <<batchVars, detailVars>>

NextDiscover ==
    \/ FetchFailed
    \/ NoBooksFound
    \/ BooksFound
    \/ SkipItem
    \/ ItemKeyError
    \/ AppendItem
    \/ EndOfPage
    \/ LoopExhausted

\* ------------------------------------------------------------------------
\* The detail pages
\* ------------------------------------------------------------------------
TxtName == <<" ", "D", "u", "n", "e", " ">>

TxtH1 == <<"D", "u", "n", "e", ":", "1">>

TxtAuthors == <<<<"F", ".", "H", " ">>, <<"B", ".", "H">>>>

TxtFirstYear == <<"i", "n", " ", "(", "1", "9", "6", "5", ")">>

TxtFirstRaw == <<" ", "1", "9", "6", "5", "?", " ">>

TxtDate == <<"1", "9", "9", "0", " ">>

TxtSubjects == <<<<"S", "F">>, <<" ", "S", "F">>>>

TxtLanguage == <<"E", "n", "\n">>

TxtIsbn == <<" ", "9", "7", "8", "0">>

\* "no count"
TxtNoEdition == <<"n", "o", " ", "c", "o", "u", "n", "t">>

\* "x 7 editions"
TxtSevenEditions == <<"x", " ", "7", " ", "e", "d", "i", "t", "i", "o", "n", "s">>

\* "1 edition."
TxtOneEdition == <<"1", " ", "e", "d", "i", "t", "i", "o", "n", ".">>

\* "3 editiony 12\tEDITIONS"
TxtLaterEdition ==
    <<"3", " ", "e", "d", "i", "t", "i", "o", "n", "y", " ", "1", "2", "\t",
      "E", "D", "I", "T", "I", "O", "N", "S">>

\* " 3.8 (8 ratings)"
TxtRating == <<" ", "3", ".", "8", " ", "(", "8", " ", "r", "a", "t", "i", "n", "g", "s", ")">>

\* "4.2"
TxtLoneRating == <<"4", ".", "2">>

\* "13.80(12rating)"
TxtTightRating ==
    <<"1", "3", ".", "8", "0", "(", "1", "2", "r", "a", "t", "i", "n", "g", ")">>

\* "3.8 (8 votes)"
TxtVotes == <<"3", ".", "8", " ", "(", "8", " ", "v", "o", "t", "e", "s", ")">>

TxtPages == <<" ", "3", "2", "0", " ">>

TxtRomanPages == <<"x", "i", "i">>

TxtSup2Pages == <<Sup2>>

\* A parsed detail page: what each soup.find / find_all / get_text of
\* crawl_book_details_from_url finds on it (element texts before strip).
DetailPages ==
    [nameSpan       : {None, Some(TxtName)},
     h1             : {None, Some(TxtH1)},
     authorPanel    : {None, Some(TxtAuthors)},
     firstPublished : {None, Some(EmptyStr), Some(TxtFirstYear), Some(TxtFirstRaw)},
     datePublished  : {None, Some(TxtDate)},
     subjectLinks   : {<<>>, TxtSubjects},
     inLanguage     : {None, Some(TxtLanguage)},
     isbnDd         : {None, Some(TxtIsbn)},
     text           : {TxtNoEdition, TxtSevenEditions, TxtOneEdition, TxtLaterEdition},
     ratingValue    : {None, Some(TxtRating), Some(TxtLoneRating), Some(TxtTightRating),
                       Some(TxtVotes)},
     editionPages   : {None, Some(TxtPages), Some(TxtRomanPages), Some(TxtSup2Pages)}]

DetailPage(name, first, text, rating, pages) ==
    [nameSpan |-> name, h1 |-> Some(TxtH1), authorPanel |-> Some(TxtAuthors),
     firstPublished |-> first, datePublished |-> None, subjectLinks |-> TxtSubjects,
     inLanguage |-> None, isbnDd |-> Some(TxtIsbn), text |-> text,
     ratingValue |-> rating, editionPages |-> pages]

PageFull ==
    DetailPage(Some(TxtName), Some(TxtFirstYear), TxtSevenEditions, Some(TxtRating), Some(TxtPages))

PageSparse == DetailPage(None, None, TxtNoEdition, Some(TxtLoneRating), None)

PageSup2 ==
    DetailPage(Some(TxtName), Some(TxtFirstRaw), TxtOneEdition, None, Some(TxtSup2Pages))

\* The detail pages the batch crawl is run against.
BatchPages == {PageFull, PageSparse, PageSup2}

\* ------------------------------------------------------------------------
\* crawl_book_details_from_url
\* ------------------------------------------------------------------------
EmptyDict == [k \in {} |-> None]

StripAll(texts) == [i \in 1..Len(texts) |-> strip(texts[i])]

ExtractTitle(soup) ==
    LET title_elem == IF IsNone(soup.nameSpan) THEN soup.h1 ELSE soup.nameSpan
    IN  IF IsNone(title_elem) THEN EmptyStr ELSE strip(Val(title_elem))

ExtractAuthors(soup) ==
    IF IsNone(soup.authorPanel) THEN <<>> ELSE StripAll(Val(soup.authorPanel))

\* re.search(r'\((\d{4})\)', s): group(1) of the first match, or None.
YearSearch(s) ==
    LET hits == {i \in 1..Len(s) :
                    /\ s[i] = "("
                    /\ \A k \in 1..4 : At(s, i + k) \in Digits
                    /\ At(s, i + 5) = ")"}
    IN  IF hits = {} THEN None ELSE Some(SubSeq(s, MinOf(hits) + 1, MinOf(hits) + 4))

ExtractFirstPublished(soup) ==
    IF ~IsNone(soup.firstPublished) /\ Val(soup.firstPublished) # EmptyStr
    THEN LET year_match == YearSearch(Val(soup.firstPublished))
         IN  IF ~IsNone(year_match) THEN Val(year_match)
             ELSE strip(Val(soup.firstPublished))
    ELSE EmptyStr

ExtractPublishDate(soup) ==
    IF ~IsNone(soup.datePublished) THEN strip(Val(soup.datePublished)) ELSE EmptyStr

ExtractSubjects(soup) == StripAll(soup.subjectLinks)

\* ExtractLanguage with a placeholder for the default.
ExtractLanguageUnknown(soup) ==
    IF ~IsNone(soup.inLanguage) THEN strip(Val(soup.inLanguage)) ELSE <<"?">>

ExtractLanguage(soup) ==
    IF ~IsNone(soup.inLanguage) THEN strip(Val(soup.inLanguage)) ELSE EmptyStr

ExtractIsbn(soup) ==
    IF ~IsNone(soup.isbnDd) THEN strip(Val(soup.isbnDd)) ELSE EmptyStr

\* r'(\d+)\s*editions?\b' with re.I matches at i: the digits, the spaces and
\* the optional "s" are greedy, and no shorter choice can succeed.
EditionMatchAt(s, i) ==
    /\ s[i] \in Digits
    /\ LET d == RunEnd(s, i, Digits)
           w == RunEnd(s, d + 1, Whitespace)
           e == w + 7
       IN  /\ LitAtCI(s, w + 1, <<"e", "d", "i", "t", "i", "o", "n">>)
           /\ IF Lower(At(s, e + 1)) = "s"
              THEN At(s, e + 2) \notin WordChars
              ELSE At(s, e + 1) \notin WordChars

\* re.search(...): group(1) of the leftmost match, or None.
EditionSearch(s) ==
    LET hits == {i \in 1..Len(s) : EditionMatchAt(s, i)}
    IN  IF hits = {} THEN None
        ELSE Some(SubSeq(s, MinOf(hits), RunEnd(s, MinOf(hits), Digits)))

ExtractEditionCount(soup) ==
    LET edition_match == EditionSearch(soup.text)
    IN  IF ~IsNone(edition_match) THEN PyInt(Val(edition_match)) ELSE 0

\* r'(\d\.\d+)\s*\((\d+)\s*ratings?\)' matches at i.
RatingMatchAt(s, i) ==
    /\ s[i] \in Digits
    /\ At(s, i + 1) = "."
    /\ At(s, i + 2) \in Digits
    /\ LET f  == RunEnd(s, i + 2, Digits)
           p  == RunEnd(s, f + 1, Whitespace) + 1
       IN  /\ At(s, p) = "("
           /\ At(s, p + 1) \in Digits
           /\ LET c == RunEnd(s, p + 1, Digits)
                  q == RunEnd(s, c + 1, Whitespace) + 1
              IN  /\ LitAt(s, q, <<"r", "a", "t", "i", "n", "g">>)
                  /\ \/ At(s, q + 6) = "s" /\ At(s, q + 7) = ")"
                     \/ At(s, q + 6) = ")"

\* re.search(...): groups (1) and (2) of the leftmost match, or None.
RatingSearch(s) ==
    LET hits == {i \in 1..Len(s) : RatingMatchAt(s, i)}
    IN  IF hits = {} THEN None
        ELSE LET i == MinOf(hits)
                 f == RunEnd(s, i + 2, Digits)
                 p == RunEnd(s, f + 1, Whitespace) + 1
             IN  Some([whole |-> SubSeq(s, i, i), frac |-> SubSeq(s, i + 2, f),
                       count |-> SubSeq(s, p + 1, RunEnd(s, p + 1, Digits))])

\* ExtractRating that also takes a decimal without a count.
ExtractRatingLoneDecimal(soup) ==
    LET unset == [rating |-> Float0, number_of_ratings |-> 0]
    IN  IF IsNone(soup.ratingValue) THEN unset
        ELSE LET t == strip(Val(soup.ratingValue))
                 rating_match == RatingSearch(t)
             IN  IF ~IsNone(rating_match)
                 THEN [rating |-> PyFloat(Val(rating_match).whole, Val(rating_match).frac),
                       number_of_ratings |-> PyInt(Val(rating_match).count)]
                 ELSE IF Len(t) >= 3 /\ t[1] \in Digits /\ t[2] = "." /\ t[3] \in Digits
                 THEN [rating |-> PyFloat(SubSeq(t, 1, 1), SubSeq(t, 3, RunEnd(t, 3, Digits))),
                       number_of_ratings |-> 0]
                 ELSE unset

\* rating and number_of_ratings
ExtractRating(soup) ==
    LET unset == [rating |-> Float0, number_of_ratings |-> 0]
    IN  IF IsNone(soup.ratingValue) THEN unset
        ELSE LET rating_match == RatingSearch(strip(Val(soup.ratingValue)))
             IN  IF IsNone(rating_match) THEN unset
                 ELSE [rating |-> PyFloat(Val(rating_match).whole, Val(rating_match).frac),
                       number_of_ratings |-> PyInt(Val(rating_match).count)]

\* int(pages_span.get_text().strip()) raises ValueError.
PagesRaises(soup) ==
    /\ ~IsNone(soup.editionPages)
    /\ isdigit(strip(Val(soup.editionPages)))
    /\ IntRaises(strip(Val(soup.editionPages)))

ExtractPages(soup) ==
    IF ~IsNone(soup.editionPages) /\ isdigit(strip(Val(soup.editionPages)))
    THEN PyInt(strip(Val(soup.editionPages)))
    ELSE 0

\* The dictionary the function returns for a fetched page (when no step raises).
BookDetails(book_url, soup) ==
    [source_url        |-> book_url,
     title             |-> ExtractTitle(soup),
     authors           |-> ExtractAuthors(soup),
     first_published   |-> ExtractFirstPublished(soup),
     publish_date      |-> ExtractPublishDate(soup),
     subjects          |-> ExtractSubjects(soup),
     language          |-> ExtractLanguage(soup),
     isbn              |-> ExtractIsbn(soup),
     edition_count     |-> ExtractEditionCount(soup),
     rating            |-> ExtractRating(soup).rating,
     number_of_ratings |-> ExtractRating(soup).number_of_ratings,
     pages             |-> ExtractPages(soup)]

BookUrls == {<<"u", "1">>, <<"u", "2">>}

InitDetail ==
    /\ durl \in BookUrls
    /\ dsoup = None
    /\ dpc = "call"
    /\ details = EmptyDict

IdleDetail ==
    /\ durl = EmptyStr
    /\ dsoup = None
    /\ dpc = "idle"
    /\ details = EmptyDict

\* get_page returns None: return {}.
DetailFetchFailed ==
    /\ dpc = "call"
    /\ dsoup' = None
    /\ details' = EmptyDict
    /\ dpc' = "returned"
    /\ UNCHANGED durl
    /\ UNCHANGED <<discoverVars, batchVars>>

\* The page is fetched and every field is extracted.
DetailExtracted ==
    /\ dpc = "call"
    /\ \E soup \in DetailPages :
        /\ ~PagesRaises(soup)
        /\ dsoup' = Some(soup)
        /\ details' = BookDetails(durl, soup)
    /\ dpc' = "returned"
    /\ UNCHANGED durl
    /\ UNCHANGED <<discoverVars, batchVars>>

\* The page is fetched and int() raises on the page count.
DetailRaised ==
    /\ dpc = "call"
    /\ \E soup \in DetailPages :
        /\ PagesRaises(soup)
        /\ dsoup' = Some(soup)
    /\ dpc' = "raised"
    /\ UNCHANGED <<durl, details>>
    /\ UNCHANGED <<discoverVars, batchVars>>

NextDetail ==
    \/ DetailFetchFailed
    \/ DetailExtracted
    \/ DetailRaised

\* ------------------------------------------------------------------------
\* crawl_book_details_from_csv
\* ------------------------------------------------------------------------
url_column == "book_url"

CsvRow(title, key, url) == [title |-> title, work_key |-> key, book_url |-> url]

CsvRows ==
    {CsvRow(<<"D", "u", "n", "e">>, <<"O", "L", "1", "W">>, <<"u", "1">>),
     CsvRow(<<"E", "m", "m", "a">>, <<"O", "L", "2", "W">>, <<"u", "2">>),
     CsvRow(<<"U", "b", "i", "k">>, EmptyStr, <<"u", "1">>)}

\* The headers a CSV file is read with.
Headers == {{"title", "work_key", "book_url"}, {"work_key", "book_url"}, {"title", "work_key"}}

Project(row, header) == [c \in header |-> row[c]]

\* row.get(column, '')
RowGet(row, column) == IF column \in DOMAIN row THEN row[column] ELSE EmptyStr

\* details with 'original_title' and 'work_key' set from the row.
WithRowData(d, row) ==
    [k \in DOMAIN d \cup {"original_title", "work_key"} |->
        IF k = "original_title" THEN RowGet(row, "title")
        ELSE IF k = "work_key" THEN RowGet(row, "work_key")
        ELSE d[k]]

InitBatch ==
    /\ fieldnames \in Headers
    /\ \E n \in 0..MaxRows :
         rows \in [1..n -> {Project(r, fieldnames) : r \in CsvRows}]
    /\ row_idx = 1
    /\ book_details = <<>>
    /\ bpc = "open"
    /\ bresult = None
    /\ detailLog = <<>>

IdleBatch ==
    /\ fieldnames = {}
    /\ rows = <<>>
    /\ row_idx = 1
    /\ book_details = <<>>
    /\ bpc = "idle"
    /\ bresult = None
    /\ detailLog = <<>>

\* url_column is not a column of the file: return [].
ColumnMissing ==
    /\ bpc = "open"
    /\ url_column \notin fieldnames
    /\ bpc' = "done"
    /\ bresult' = Some(<<>>)
    /\ UNCHANGED <<fieldnames, rows, row_idx, book_details, detailLog>>
    /\ UNCHANGED <<discoverVars, detailVars>>

StartRows ==
    /\ bpc = "open"
    /\ url_column \in fieldnames
    /\ bpc' = "rows"
    /\ UNCHANGED <<fieldnames, rows, row_idx, book_details, bresult, detailLog>>
    /\ UNCHANGED <<discoverVars, detailVars>>

\* crawl_book_details_from_url returns {}: the row is skipped.
RowFetchFailed ==
    /\ bpc = "rows"
    /\ row_idx <= Len(rows)
    /\ detailLog' = Append(detailLog, None)
    /\ row_idx' = row_idx + 1
    /\ UNCHANGED <<fieldnames, rows, book_details, bpc, bresult>>
    /\ UNCHANGED <<discoverVars, detailVars>>

\* crawl_book_details_from_url returns the details: they are appended.
RowExtracted ==
    /\ bpc = "rows"
    /\ row_idx <= Len(rows)
    /\ \E soup \in BatchPages :
        /\ ~PagesRaises(soup)
        /\ detailLog' = Append(detailLog, Some(soup))
        /\ book_details' =
              Append(book_details,
                     WithRowData(BookDetails(rows[row_idx][url_column], soup), rows[row_idx]))
    /\ row_idx' = row_idx + 1
    /\ UNCHANGED <<fieldnames, rows, bpc, bresult>>
    /\ UNCHANGED <<discoverVars, detailVars>>

\* crawl_book_details_from_url raises: "except Exception" returns [].
RowRaised ==
    /\ bpc = "rows"
    /\ row_idx <= Len(rows)
    /\ \E soup \in BatchPages :
        /\ PagesRaises(soup)
        /\ detailLog' = Append(detailLog, Some(soup))
    /\ bpc' = "done"
    /\ bresult' = Some(<<>>)
    /\ UNCHANGED <<fieldnames, rows, row_idx, book_details>>
    /\ UNCHANGED <<discoverVars, detailVars>>

\* The rows are exhausted: return book_details.
BatchReturn ==
    /\ bpc = "rows"
    /\ row_idx > Len(rows)
    /\ bpc' = "done"
    /\ bresult' = Some(book_details)
    /\ UNCHANGED <<fieldnames, rows, row_idx, book_details, detailLog>>
    /\ UNCHANGED <<discoverVars, detailVars>>

NextBatch ==
    \/ ColumnMissing
    \/ StartRows
    \/ RowFetchFailed
    \/ RowExtracted
    \/ RowRaised
    \/ BatchReturn

\* ------------------------------------------------------------------------
\* Specifications: one call of each function
\* ------------------------------------------------------------------------
Init == InitDiscover /\ IdleBatch /\ IdleDetail

Next == NextDiscover

Spec == Init /\ [][Next]_vars

\* get_page returns and the interpreter keeps running the one thread.
FairSpec == Spec /\ WF_vars(Next)

InitOfBatch == IdleDiscover /\ InitBatch /\ IdleDetail

SpecBatch == InitOfBatch /\ [][NextBatch]_vars

InitOfDetail == IdleDiscover /\ IdleBatch /\ InitDetail

SpecDetail == InitOfDetail /\ [][NextDetail]_vars

\* ------------------------------------------------------------------------
\* Properties of crawl_openlibrary_books_by_subject
\* ------------------------------------------------------------------------
Fetched(k) == ~IsNone(fetchLog[k].soup)

\* No selector finds an item container on the page.
NoContainers(soup) ==
    /\ soup.divSearchResultItem = <<>>
    /\ soup.divBookItem = <<>>
    /\ soup.liSearchResultItem = <<>>

LacksLink(it) == IsNone(TitleLink(it)) \/ IsNone(Val(TitleLink(it)).href)

\* The records of the items that have a link, in document order.
RECURSIVE RecordsOfItems(_)
RecordsOfItems(items) ==
    IF items = <<>> THEN <<>>
    ELSE (IF LacksLink(Head(items)) THEN <<>>
          ELSE <<SummaryRecord(Val(TitleLink(Head(items))))>>)
         \o RecordsOfItems(Tail(items))

\* The records of the fetched pages of a fetch log, in page order.
RECURSIVE RecordsOfLog(_)
RecordsOfLog(log) ==
    IF log = <<>> THEN <<>>
    ELSE (IF IsNone(Head(log).soup) THEN <<>>
          ELSE RecordsOfItems(SelectBookItems(Val(Head(log).soup))))
         \o RecordsOfLog(Tail(log))

\* C1: once a fetched page k <= max_pages has no item container under any of
\* the three selectors, it is the last page fetched, the call has returned,
\* and the returned list is the records of the pages fetched before it, in
\* page order and document order.
C1_StopsAtEmptyPage ==
    \A k \in 1..Len(fetchLog) :
        (Fetched(k) /\ NoContainers(Val(fetchLog[k].soup)))
        => /\ fetchLog[k].url.page <= max_pages
           /\ k = Len(fetchLog)
           /\ \A j \in 1..Len(fetchLog) : fetchLog[j].url.page <= fetchLog[k].url.page
           /\ pc = "done"
           /\ result = Some(RecordsOfLog(SubSeq(fetchLog, 1, k - 1)))

\* An empty page stopped the crawl before max_pages, after pages with records.
C1_Witness ==
    /\ pc = "done"
    /\ Len(fetchLog) = 2
    /\ Len(fetchLog) < max_pages
    /\ Fetched(1) /\ Fetched(2)
    /\ NoContainers(Val(fetchLog[2].soup))
    /\ Len(Val(result)) >= 2

\* C3: a failed fetch of page k < max_pages leaves the crawl at the fetch of
\* page k + 1 with the accumulated records untouched, and the list returned
\* holds the records of every fetched page, before and after the failure.
C3_FailureDoesNotStop ==
    /\ \A k \in 1..Len(fetchLog) :
         (~Fetched(k) /\ fetchLog[k].url.page < max_pages)
         => IF k = Len(fetchLog)
            THEN /\ pc = "loop"
                 /\ page = fetchLog[k].url.page + 1
                 /\ books = RecordsOfLog(SubSeq(fetchLog, 1, k - 1))
            ELSE fetchLog[k + 1].url.page = fetchLog[k].url.page + 1
    /\ pc = "done" => result = Some(RecordsOfLog(fetchLog))

\* Page 2 failed between two pages with records; all their records are returned.
C3_Witness ==
    /\ pc = "done"
    /\ Len(fetchLog) = 3
    /\ Fetched(1) /\ ~Fetched(2) /\ Fetched(3)
    /\ RecordsOfLog(SubSeq(fetchLog, 1, 1)) # <<>>
    /\ RecordsOfLog(SubSeq(fetchLog, 3, 3)) # <<>>
    /\ Len(Val(result)) =
         Len(RecordsOfLog(SubSeq(fetchLog, 1, 1))) + Len(RecordsOfLog(SubSeq(fetchLog, 3, 3)))

FetchEvents == {i \in 1..Len(events) : events[i].kind = "fetch"}

\* C4: exactly one sleep lies between every two consecutive fetches, whatever
\* the outcome of the earlier one, and no sleep lies between two items of a page.
C4_OneSleepBetweenFetches ==
    /\ \A i, j \in FetchEvents :
         (i < j /\ \A k \in (i + 1)..(j - 1) : k \notin FetchEvents)
         => Cardinality({k \in (i + 1)..(j - 1) : events[k].kind = "sleep"}) = 1
    /\ \A k \in 2..(Len(events) - 1) :
         events[k].kind = "sleep"
         => ~(events[k - 1].kind = "item" /\ events[k + 1].kind = "item"
              /\ events[k - 1].page = events[k + 1].page)

\* The work identifier as the claim derives it: what follows the first
\* "/works/" up to the next "/" or "?", empty without "/works/".
ClaimedWorkKey(href) ==
    IF ~Contains(href, WorksSep) THEN EmptyStr
    ELSE LET i    == MinOf({n \in 1..Len(href) : LitAt(href, n, WorksSep)})
             rest == SubSeq(href, i + Len(WorksSep), Len(href))
             cut  == {n \in 1..Len(rest) : rest[n] \in {"/", "?"}}
         IN  IF cut = {} THEN rest ELSE SubSeq(rest, 1, MinOf(cut) - 1)

RECURSIVE ClaimedRecords(_)
ClaimedRecords(items) ==
    IF items = <<>> THEN <<>>
    ELSE (IF LacksLink(Head(items)) THEN <<>>
          ELSE LET link == Val(TitleLink(Head(items)))
               IN  <<[title |-> strip(link.text),
                      work_key |-> ClaimedWorkKey(Val(link.href)),
                      book_url |-> Origin \o Val(link.href)]>>)
         \o ClaimedRecords(Tail(items))

\* C6: every record of the page being processed has the work identifier that
\* follows "/works/" in the path of its link (cut at "/" or "?", empty without
\* "/works/") and the origin prefixed to the unchanged link as its URL.
C6_WorkKeyOfPath ==
    pc = "items" => page_books = ClaimedRecords(SubSeq(book_items, 1, item_idx - 1))

\* C9: an item container without a link (no anchor, or an anchor without a
\* link target) never aborts the call.
C9_LinklessItemNeverAborts ==
    ~(pc = "raised" /\ LacksLink(book_items[item_idx]))

\* The page indices fetched so far are 1, 2, ... in strictly increasing order,
\* none above max_pages; with max_pages <= 0 nothing is fetched and the
\* returned list is empty.
C10_FetchOrder ==
    /\ Len(fetchLog) > 0 => fetchLog[1].url.page = 1
    /\ \A i \in 1..(Len(fetchLog) - 1) : fetchLog[i].url.page < fetchLog[i + 1].url.page
    /\ \A i \in 1..Len(fetchLog) : fetchLog[i].url.page <= max_pages
    /\ Len(fetchLog) <= MaxOf({max_pages, 0})
    /\ max_pages <= 0 => (fetchLog = <<>> /\ (pc = "done" => result = Some(<<>>)))

\* C10: every call ends (returns, or raises), having fetched page indices in
\* strictly increasing order from 1, each at most once, none above max_pages;
\* with max_pages <= 0 it returns the empty list without a fetch.
C10_TerminatesInOrder ==
    /\ []C10_FetchOrder
    /\ <>(pc \in {"done", "raised"})
    /\ (max_pages <= 0) => <>(pc = "done" /\ result = Some(<<>>))

\* A call that used all of max_pages >= 2 fetches, one of them failed.
C10_Witness ==
    /\ pc = "done"
    /\ max_pages >= 2
    /\ Len(fetchLog) = max_pages
    /\ \E k \in 1..Len(fetchLog) : ~Fetched(k)
    /\ \E k \in 1..Len(fetchLog) : Fetched(k)

\* ------------------------------------------------------------------------
\* Properties of crawl_book_details_from_url
\* ------------------------------------------------------------------------
DetailFields ==
    {"source_url", "title", "authors", "first_published", "publish_date", "subjects",
     "language", "isbn", "edition_count", "rating", "number_of_ratings", "pages"}

\* The page text has no word "edition" in any letter case.
NoEditionWord(text) ==
    \A i \in 1..Len(text) : ~LitAtCI(text, i, <<"e", "d", "i", "t", "i", "o", "n">>)

\* C5: a returned dictionary is empty exactly when the fetch failed; after a
\* fetch it has the twelve fields, and every field whose marker the page
\* lacks has its default (empty string, empty list, 0 or 0.0).
C5_DefaultsForAbsentMarkers ==
    dpc = "returned" =>
        IF IsNone(dsoup) THEN DOMAIN details = {}
        ELSE LET soup == Val(dsoup)
             IN  /\ DOMAIN details = DetailFields
                 /\ details.source_url = durl
                 /\ (IsNone(soup.nameSpan) /\ IsNone(soup.h1)) => details.title = EmptyStr
                 /\ IsNone(soup.authorPanel) => details.authors = <<>>
                 /\ IsNone(soup.firstPublished) => details.first_published = EmptyStr
                 /\ IsNone(soup.datePublished) => details.publish_date = EmptyStr
                 /\ soup.subjectLinks = <<>> => details.subjects = <<>>
                 /\ IsNone(soup.inLanguage) => details.language = EmptyStr
                 /\ IsNone(soup.isbnDd) => details.isbn = EmptyStr
                 /\ NoEditionWord(soup.text) => details.edition_count = 0
                 /\ IsNone(soup.ratingValue)
                      => (details.rating = Float0 /\ details.number_of_ratings = 0)
                 /\ IsNone(soup.editionPages) => details.pages = 0

\* A returned record of a page with some markers present and others absent.
C5_Witness ==
    /\ dpc = "returned"
    /\ ~IsNone(dsoup)
    /\ IsNone(Val(dsoup).nameSpan) /\ ~IsNone(Val(dsoup).h1)
    /\ IsNone(Val(dsoup).inLanguage) /\ IsNone(Val(dsoup).isbnDd)
    /\ IsNone(Val(dsoup).editionPages) /\ ~IsNone(Val(dsoup).ratingValue)
    /\ details.title = <<"D", "u", "n", "e", ":", "1">>
    /\ details.language = EmptyStr
    /\ details.pages = 0
    /\ details.edition_count = 7

AllIn(s, a, b, S) == \A k \in a..b : At(s, k) \in S

\* t holds "<digit>.<digits> (<digits> rating[s])" with the rating's digits at
\* i and i+2..f and the count's digits at p+1..c.
RatingShape(t, i, f, p, c) ==
    /\ At(t, i) \in Digits
    /\ At(t, i + 1) = "."
    /\ i + 2 <= f /\ AllIn(t, i + 2, f, Digits)
    /\ f < p /\ AllIn(t, f + 1, p - 1, Whitespace)
    /\ At(t, p) = "("
    /\ p + 1 <= c /\ AllIn(t, p + 1, c, Digits)
    /\ \E q \in (c + 1)..(Len(t) + 1) :
         /\ AllIn(t, c + 1, q - 1, Whitespace)
         /\ LitAt(t, q, <<"r", "a", "t", "i", "n", "g">>)
         /\ \/ LitAt(t, q + 6, <<")">>)
            \/ LitAt(t, q + 6, <<"s", ")">>)

RatingShapes(t) ==
    UNION {UNION {UNION {{<<i, f, p, c>> :
                             c \in {c \in (p + 1)..Len(t) : RatingShape(t, i, f, p, c)}} :
                         p \in {p \in (f + 1)..Len(t) :
                                  At(t, p) = "(" /\ AllIn(t, f + 1, p - 1, Whitespace)}} :
                  f \in {f \in (i + 2)..Len(t) : AllIn(t, i + 2, f, Digits)}} :
           i \in {i \in 1..Len(t) : At(t, i) \in Digits /\ At(t, i + 1) = "."}}

\* C7: either the rating text holds the compound pattern and rating and
\* number_of_ratings are the two numbers of one occurrence of it, or it does
\* not (no span, or a text such as "4.2") and they are 0.0 and 0.
C7_RatingAndCountTogether ==
    (dpc = "returned" /\ ~IsNone(dsoup)) =>
        LET span == Val(dsoup).ratingValue
            t    == IF IsNone(span) THEN EmptyStr ELSE Val(span)
        IN  IF RatingShapes(t) = {}
            THEN details.rating = Float0 /\ details.number_of_ratings = 0
            ELSE \E m \in RatingShapes(t) :
                    /\ details.rating = PyFloat(SubSeq(t, m[1], m[1]), SubSeq(t, m[1] + 2, m[2]))
                    /\ details.number_of_ratings = PyInt(SubSeq(t, m[3] + 1, m[4]))

\* " 3.8 (8 ratings)" gave rating 3.8 and 8 ratings.
C7_Witness ==
    /\ dpc = "returned"
    /\ ~IsNone(dsoup)
    /\ Val(dsoup).ratingValue = Some(TxtRating)
    /\ details.rating = [num |-> 38, exp |-> 1]
    /\ details.number_of_ratings = 8

\* ------------------------------------------------------------------------
\* Properties of crawl_book_details_from_csv
\* ------------------------------------------------------------------------
\* The indices of the rows whose detail page was fetched, in row order.
RECURSIVE FetchedRows(_)
FetchedRows(n) ==
    IF n = 0 THEN <<>>
    ELSE FetchedRows(n - 1) \o (IF IsNone(detailLog[n]) THEN <<>> ELSE <<n>>)

\* C2: the returned list has one record per row whose detail fetch succeeded
\* and none for the others, in row order, each with the original_title and
\* work_key of its row.
C2_OneRecordPerFetchedRow ==
    (bpc = "done" /\ url_column \in fieldnames) =>
        LET got == Val(bresult)
            idx == FetchedRows(Len(detailLog))
        IN  /\ Len(got) = Len(idx)
            /\ \A j \in 1..Len(got) :
                 /\ got[j].original_title = RowGet(rows[idx[j]], "title")
                 /\ got[j].work_key = RowGet(rows[idx[j]], "work_key")
                 /\ got[j].source_url = rows[idx[j]][url_column]

\* C8: a row whose detail page fails (fetch failure or an error raised in
\* extraction) is skipped alone: every row is processed and the records
\* collected for the other rows are returned.
C8_BadRowSkippedAlone ==
    (bpc = "done" /\ url_column \in fieldnames) =>
        /\ Len(detailLog) = Len(rows)
        /\ bresult = Some(book_details)

====
